---- MODULE Spec2Model ----
(***************************************************************************)
(* CleanVentures: venture membership and financial lifecycle.              *)
(*                                                                         *)
(* State: the VenturesStore reducer state (ventures, joinRequests,         *)
(* members, ventureTxs, pledges), the WalletStore wallets map, the         *)
(* signed-in user, and the render the mounted screen was drawn from.       *)
(* Every action is one UI handler of the venture-detail, account or cart   *)
(* screen, composed of the reducer dispatches it issues, in source order.  *)
(*                                                                         *)
(* React closures: a handler reads the store through the values captured   *)
(* by the render that created it.  `view` is that render; `taps` counts    *)
(* the handlers that ran since.  A Pressable stays on screen until the     *)
(* next render, so a second press of a button of the same tab may run on   *)
(* the same (now stale) view (an Alert.alert raised by such a press keeps  *)
(* the closure of the render it was raised in); the handlers of the        *)
(* account and cart screens are modelled on a fresh render.                *)
(***************************************************************************)
EXTENDS Integers, Sequences, FiniteSets, TLC

\* ---------------------------------------------------------------- bounds
MaxClock == 1          \* distinct Date.now() readings used for new request ids
MaxStaleTaps == 1      \* handlers that may run on a render that is already stale
MaxTopups == 1         \* wallet top-ups per run
MaxContributions == 1  \* voluntary contributions per run
MaxCheckouts == 1      \* cart checkouts per run
MaxSteps == 4          \* handler invocations per run

\* ------------------------------------------------------- universe / seeds
Users == {"abhijeet", "priya", "rahul"}
Ventures == {"v1", "v6"}
NoAuth == ""                      \* authUsername: undefined
NoPrivilege == "none"             \* privilege: null

PitchChoices == {3000}
FormPrivileges == {"buyer"}
TopupChoices == {500}
ContributeChoices == {200}
CheckoutTotals == {150}

INITIAL_BALANCES == [abhijeet |-> 5000, priya |-> 3500, rahul |-> 2800]
DEFAULT_INITIAL_BALANCE == 1200

DisplayName(u) ==
  CASE u = "abhijeet" -> "Abhijeet Patil"
    [] u = "priya" -> "Priya Mehta"
    [] u = "rahul" -> "Rahul Desai"
    [] OTHER -> "Unknown"

OwnerName(v) == IF v = "v1" THEN "Abhijeet P." ELSE "Neha G."

\* ownerName === displayName || ownerName.toLowerCase().includes(username)
OwnerNameMatches(v, u) ==
  \/ OwnerName(v) = DisplayName(u)
  \/ (v = "v1" /\ u = "abhijeet")

Mem(id, name, auth, priv, owner) ==
  [id |-> id, username |-> name, authUsername |-> auth, privilege |-> priv, isOwner |-> owner]

buildInitialMembers ==
  [v \in Ventures |->
     IF v = "v1"
     THEN << Mem("owner-v1", "Abhijeet P.", "abhijeet", "co-owner", TRUE),
             Mem("m-v1-priya", "Priya M.", "priya", "co-owner", FALSE),
             Mem("m-v1-rahul", "Rahul D.", "rahul", "admin", FALSE),
             Mem("m-v1-deepa", "Deepa N.", NoAuth, "viewer", FALSE) >>
     ELSE << Mem("owner-v6", "Meera K.", NoAuth, "co-owner", TRUE),
             Mem("m-v6-abhijeet", "Abhijeet P.", "abhijeet", "co-owner", FALSE),
             Mem("m-v6-farhan", "Farhan A.", NoAuth, "viewer", FALSE) >>]

Req(id, name, auth, priv, pitch, status) ==
  [id |-> id, username |-> name, authUsername |-> auth, privilege |-> priv,
   pitch |-> pitch, status |-> status]

MOCK_JOIN_REQUESTS ==
  [v \in Ventures |->
     IF v = "v1"
     THEN << Req("jr1", "Priya M.", "priya", "buyer", 300, "pending"),
             Req("jr2", "Rahul D.", "rahul", NoPrivilege, 0, "pending"),
             Req("jr3", "GreenCorp Ltd.", NoAuth, NoPrivilege, 2000, "pending") >>
     ELSE << Req("jr4", "Arjun T.", NoAuth, NoPrivilege, 0, "pending") >>]

Tx(type, name, amount, description) ==
  [type |-> type, username |-> name, amount |-> amount, description |-> description]

MOCK_TRANSACTIONS ==
  [v \in Ventures |->
     IF v = "v1"
     THEN << Tx("contribution", "Abhijeet P.", 500, "seed"),
             Tx("contribution", "Priya M.", 300, "seed"),
             Tx("contribution", "TechCorp Sponsor", 2000, "seed"),
             Tx("purchase", "Abhijeet P.", -450, "seed"),
             Tx("contribution", "Rohan S.", 400, "seed") >>
     ELSE << >>]

MOCK_VENTURES == [v \in Ventures |-> "proposed"]

\* ------------------------------------------------------------- sequences
\* reduce((sum, x) => sum + x.amount, 0)
RECURSIVE SumAmount(_)
SumAmount(s) == IF s = << >> THEN 0 ELSE Head(s).amount + SumAmount(Tail(s))

Filter(s, P(_)) == SelectSeq(s, P)
Some(s, P(_)) == \E i \in 1..Len(s) : P(s[i])
MapSeq(s, f(_)) == [i \in 1..Len(s) |-> f(s[i])]
Count(s, P(_)) == Len(SelectSeq(s, P))
\* Array.prototype.find: first match, or the given default
Find(s, P(_), dflt) ==
  LET hits == SelectSeq(s, P) IN IF hits = << >> THEN dflt ELSE Head(hits)

Max(a, b) == IF a >= b THEN a ELSE b
\* Math.round on a non-negative quotient n/d: nearest integer, halves go up
RoundDiv(n, d) == (2 * n + d) \div (2 * d)

\* ----------------------------------------------------------------- state
VARIABLES store,      \* VenturesStore reducer state
          wallets,    \* WalletStore state.wallets: authUsername -> UserWallet (lazily created)
          authUser,   \* AuthStore user (screens are behind the auth guard)
          now,        \* last Date.now() reading
          view,       \* the render the mounted screen's handlers were created in
          taps,       \* handlers run since that render
          screen,     \* the venture and tab whose Pressable ran on that render, if one did
          steps,      \* handlers run so far
          lastCall    \* the last direct call of can() and its outcome

vars == << store, wallets, authUser, now, view, taps, screen, steps, lastCall >>

NoMember == Mem("", "", NoAuth, NoPrivilege, FALSE)
NoPledge == [authUsername |-> NoAuth, displayName |-> "", amount |-> 0]
NoCall == [privilege |-> "", permission |-> "", isOwner |-> FALSE, outcome |-> ""]

\* ------------------------------------------------ VenturesStore reducer
UPDATE_VENTURE(state, id, status) ==
  [state EXCEPT !.ventures = [v \in DOMAIN @ |-> IF v = id THEN status ELSE @[v]]]

ADD_JOIN_REQUEST(state, ventureId, request) ==
  LET existing == state.joinRequests[ventureId] IN
  IF Some(existing, LAMBDA r : r.id = request.id) THEN state
  ELSE [state EXCEPT !.joinRequests[ventureId] = Append(existing, request)]

UPDATE_JOIN_REQUEST_STATUS(state, ventureId, requestId, status) ==
  [state EXCEPT !.joinRequests[ventureId] =
     MapSeq(@, LAMBDA r : IF r.id = requestId THEN [r EXCEPT !.status = status] ELSE r)]

\* variant: every request of the venture is set to denied, decided or not
REJECT_ALL_PENDING_REQUESTS_DenyAll(state, ventureId) ==
  [state EXCEPT !.joinRequests[ventureId] =
     MapSeq(@, LAMBDA r : [r EXCEPT !.status = "denied"])]

REJECT_ALL_PENDING_REQUESTS(state, ventureId) ==
  [state EXCEPT !.joinRequests[ventureId] =
     MapSeq(@, LAMBDA r : IF r.status = "pending" THEN [r EXCEPT !.status = "denied"] ELSE r)]

\* variant: the member is appended whether or not the id is already present
ADD_MEMBER_NoIdCheck(state, ventureId, member) ==
  [state EXCEPT !.members[ventureId] = Append(@, member)]

ADD_MEMBER(state, ventureId, member) ==
  LET existing == state.members[ventureId] IN
  IF Some(existing, LAMBDA m : m.id = member.id) THEN state
  ELSE [state EXCEPT !.members[ventureId] = Append(existing, member)]

\* variant: removing a member also drops the venture's join requests
REMOVE_MEMBER_DropRequests(state, ventureId, memberId) ==
  [state EXCEPT !.members[ventureId] = Filter(@, LAMBDA m : m.id # memberId),
                !.joinRequests[ventureId] = << >>]

REMOVE_MEMBER(state, ventureId, memberId) ==
  [state EXCEPT !.members[ventureId] = Filter(@, LAMBDA m : m.id # memberId)]

UPDATE_MEMBER(state, ventureId, memberId, privilege) ==
  [state EXCEPT !.members[ventureId] =
     MapSeq(@, LAMBDA m : IF m.id = memberId THEN [m EXCEPT !.privilege = privilege] ELSE m)]

ADD_VENTURE_TX(state, ventureId, tx) ==
  [state EXCEPT !.ventureTxs[ventureId] = << tx >> \o @]

\* variant: the new pledge is appended without dropping the user's earlier one
RECORD_PLEDGE_KeepEarlier(state, ventureId, pledge) ==
  [state EXCEPT !.pledges[ventureId] = Append(@, pledge)]

RECORD_PLEDGE(state, ventureId, pledge) ==
  [state EXCEPT !.pledges[ventureId] =
     Append(Filter(@, LAMBDA p : p.authUsername # pledge.authUsername), pledge)]

REMOVE_PLEDGE(state, ventureId, authUsername) ==
  [state EXCEPT !.pledges[ventureId] = Filter(@, LAMBDA p : p.authUsername # authUsername)]

\* VenturesStore selectors
getMemberForUser(state, ventureId, authUsername) ==
  Find(state.members[ventureId], LAMBDA m : m.authUsername = authUsername, NoMember)

hasRequestedJoin(state, ventureId, authUsername) ==
  IF authUsername # NoAuth
  THEN Some(state.joinRequests[ventureId],
            LAMBDA r : r.authUsername = authUsername /\ r.status = "pending")
  ELSE Len(state.joinRequests[ventureId]) > 0

\* --------------------------------------------------- WalletStore reducer
getOrCreateWallet(ws, authUsername) ==
  IF authUsername \in DOMAIN ws THEN ws[authUsername]
  ELSE [balance |-> IF authUsername \in DOMAIN INITIAL_BALANCES
                    THEN INITIAL_BALANCES[authUsername] ELSE DEFAULT_INITIAL_BALANCE,
        transactions |-> << >>]

PutWallet(ws, authUsername, w) ==
  [u \in DOMAIN ws \cup {authUsername} |-> IF u = authUsername THEN w ELSE ws[u]]

WTx(type, amount, label) == [type |-> type, amount |-> amount, label |-> label]

TOPUP(ws, authUsername, amount, label) ==
  LET wallet == getOrCreateWallet(ws, authUsername) IN
  PutWallet(ws, authUsername,
            [balance |-> wallet.balance + amount,
             transactions |-> << WTx("topup", amount, label) >> \o wallet.transactions])

\* variant: the balance is not floored at 0
DEDUCT_NoFloor(ws, authUsername, amount, label) ==
  LET wallet == getOrCreateWallet(ws, authUsername) IN
  PutWallet(ws, authUsername,
            [balance |-> wallet.balance - amount,
             transactions |-> << WTx("deduct", amount, label) >> \o wallet.transactions])

DEDUCT(ws, authUsername, amount, label) ==
  LET wallet == getOrCreateWallet(ws, authUsername) IN
  PutWallet(ws, authUsername,
            [balance |-> Max(0, wallet.balance - amount),
             transactions |-> << WTx("deduct", amount, label) >> \o wallet.transactions])

getBalance(ws, authUsername) == getOrCreateWallet(ws, authUsername).balance

\* ------------------------------------------------------------ permissions
Permissions ==
  {"VIEW_VENTURE", "VIEW_MEMBERS", "VIEW_WALLET", "VIEW_REQUESTS", "VIEW_TASKS",
   "VIEW_SUPPLIES", "CREATE_TASK", "COMPLETE_TASK", "ASSIGN_TASK", "CONTRIBUTE_FUNDS",
   "PURCHASE_SUPPLIES", "MANAGE_REQUESTS", "REMOVE_MEMBER", "CHANGE_MEMBER_ROLE",
   "CHANGE_VENTURE_STATUS", "UPLOAD_PHOTO", "SET_COVER_PHOTO", "REMOVE_PHOTO"}

PRIVILEGE_PERMISSIONS(key) ==
  CASE key = "co-owner" -> Permissions
    [] key = "admin" ->
         {"VIEW_VENTURE", "VIEW_MEMBERS", "VIEW_WALLET", "VIEW_REQUESTS", "VIEW_TASKS",
          "VIEW_SUPPLIES", "CREATE_TASK", "COMPLETE_TASK", "ASSIGN_TASK",
          "CONTRIBUTE_FUNDS", "MANAGE_REQUESTS", "UPLOAD_PHOTO"}
    [] key = "buyer" ->
         {"VIEW_VENTURE", "VIEW_MEMBERS", "VIEW_WALLET", "VIEW_TASKS", "VIEW_SUPPLIES",
          "CONTRIBUTE_FUNDS", "PURCHASE_SUPPLIES", "UPLOAD_PHOTO"}
    [] key = "viewer" ->
         {"VIEW_VENTURE", "VIEW_MEMBERS", "VIEW_WALLET", "VIEW_TASKS", "VIEW_SUPPLIES"}
    [] key = "none" -> {"VIEW_VENTURE"}
    [] OTHER -> {}

\* keys every object literal inherits from Object.prototype: the lookup
\* PRIVILEGE_PERMISSIONS[key] finds a value that is not an array
ObjectPrototypeKeys ==
  {"constructor", "toString", "toLocaleString", "valueOf", "hasOwnProperty",
   "isPrototypeOf", "propertyIsEnumerable", "__proto__"}

\* PRIVILEGE_PERMISSIONS[key]?.includes(permission) throws when the value found
\* is neither undefined nor an array (".includes is not a function")
canThrows(privilege, permission, isOwner) == ~isOwner /\ privilege \in ObjectPrototypeKeys

\* the value returned, when the call returns
can(privilege, permission, isOwner) ==
  IF isOwner THEN TRUE ELSE permission \in PRIVILEGE_PERMISSIONS(privilege)

\* ------------------------------------------------------ orchestration
\* The two stores as one value, so that a handler is a function of it.
G == [store |-> store, wallets |-> wallets]

\* VentureDetailScreen: the signed-in user's standing, derived at render time
myMembership(vw, v) == getMemberForUser(vw.store, v, authUser)
isLegacyOwner(vw, v) == myMembership(vw, v) = NoMember /\ OwnerNameMatches(v, authUser)
myPrivilege(vw, v) ==
  LET m == myMembership(vw, v) IN
  IF m # NoMember /\ m.privilege # NoPrivilege THEN m.privilege
  ELSE IF m = NoMember /\ OwnerNameMatches(v, authUser) THEN "co-owner" ELSE NoPrivilege
isOwnerFlag(vw, v) ==
  LET m == myMembership(vw, v) IN m.isOwner \/ (m = NoMember /\ OwnerNameMatches(v, authUser))
isCoOwner(vw, v) == myPrivilege(vw, v) = "co-owner" \/ isOwnerFlag(vw, v)
\* variant: any member of the venture passes every permission check
canDo_AnyMember(vw, v, p) == myMembership(vw, v) # NoMember

canDo(vw, v, p) ==
  LET priv == myPrivilege(vw, v) IN
  can(priv, p, priv = "co-owner" \/ isOwnerFlag(vw, v))
canSeeRequests(vw, v) ==
  LET priv == myPrivilege(vw, v) IN
  priv = "co-owner" \/ priv = "admin" \/ isOwnerFlag(vw, v)
canSeeWallet(vw, v) ==
  LET priv == myPrivilege(vw, v) IN
  priv = "co-owner" \/ priv = "buyer" \/ isOwnerFlag(vw, v)
canJoin(vw, v) ==
  /\ vw.store.ventures[v] \in {"proposed", "ongoing"}
  /\ myMembership(vw, v) = NoMember
  /\ ~isLegacyOwner(vw, v)
alreadyRequested(vw, v) == hasRequestedJoin(vw.store, v, authUser)

\* variant: the pledge is deducted and recorded without its ledger entry
handlePledgeDeduct_NoLedgerEntry(g, v, authUsername, displayName, amount) ==
  [wallets |-> DEDUCT(g.wallets, authUsername, amount, "Pledge to " \o v),
   store |-> RECORD_PLEDGE(g.store, v,
               [authUsername |-> authUsername, displayName |-> displayName,
                amount |-> amount])]

handlePledgeDeduct(g, v, authUsername, displayName, amount) ==
  [wallets |-> DEDUCT(g.wallets, authUsername, amount, "Pledge to " \o v),
   store |-> ADD_VENTURE_TX(
               RECORD_PLEDGE(g.store, v,
                 [authUsername |-> authUsername, displayName |-> displayName,
                  amount |-> amount]),
               v, Tx("contribution", displayName, amount, "Pledge on joining"))]

\* pledges are read through the render's getPledgesForVenture
handleMemberRefund(vw, g, v, authUsername, displayName) ==
  LET pledge == Find(vw.store.pledges[v], LAMBDA p : p.authUsername = authUsername, NoPledge) IN
  IF pledge = NoPledge \/ pledge.amount <= 0 THEN g
  ELSE [wallets |-> TOPUP(g.wallets, authUsername, pledge.amount, "Refund from " \o v),
        store |-> ADD_VENTURE_TX(REMOVE_PLEDGE(g.store, v, authUsername), v,
                    Tx("refund", displayName, pledge.amount, "Refund on leaving/removal"))]

\* remaining, as handleVentureCompletion computes it
CompletionRemaining(v) ==
  LET storedTxs == MOCK_TRANSACTIONS[v]
      totalContributed == SumAmount(Filter(storedTxs, LAMBDA t : t.type = "contribution"))
      totalSpent == SumAmount(Filter(storedTxs, LAMBDA t : t.type = "purchase"))
  IN Max(0, totalContributed - totalSpent)

\* variant: every pledger is paid the whole remaining balance
PayoutAmount_Unweighted(remaining, amount, totalPledged) == RoundDiv(remaining * amount, amount)

PayoutAmount(remaining, amount, totalPledged) == RoundDiv(remaining * amount, totalPledged)

\* the forEach over the pledges: credit (signed-in pledger only) and cashout entry
RECURSIVE PayoutLoop(_, _, _, _, _)
PayoutLoop(g, v, pl, remaining, totalPledged) ==
  IF pl = << >> THEN g
  ELSE LET pledge == Head(pl)
           refundAmount == PayoutAmount(remaining, pledge.amount, totalPledged)
           w1 == IF refundAmount > 0 /\ authUser = pledge.authUsername
                 THEN TOPUP(g.wallets, pledge.authUsername, refundAmount,
                            "Payout from completed venture " \o v)
                 ELSE g.wallets
           s1 == IF refundAmount > 0
                 THEN ADD_VENTURE_TX(g.store, v,
                        Tx("cashout", pledge.displayName, refundAmount, "Proportional payout"))
                 ELSE g.store
       IN PayoutLoop([wallets |-> w1, store |-> s1], v, Tail(pl), remaining, totalPledged)

RECURSIVE ClearPledges(_, _, _)
ClearPledges(state, v, pl) ==
  IF pl = << >> THEN state
  ELSE ClearPledges(REMOVE_PLEDGE(state, v, Head(pl).authUsername), v, Tail(pl))

handleVentureCompletion(vw, g, v) ==
  LET pledges == vw.store.pledges[v]
      totalPledged == SumAmount(pledges)
      remaining == CompletionRemaining(v)
      g1 == IF remaining > 0 /\ totalPledged > 0
            THEN PayoutLoop(g, v, pledges, remaining, totalPledged)
            ELSE g
  IN [g1 EXCEPT !.store = ClearPledges(@, v, pledges)]

\* RequestsTab.decide
decide(g, v, req, action) ==
  LET g1 == [g EXCEPT !.store = UPDATE_JOIN_REQUEST_STATUS(@, v, req.id, action)]
      g2 == IF action = "approved" /\ req.pitch > 0 /\ req.authUsername # NoAuth
            THEN handlePledgeDeduct(g1, v, req.authUsername, req.username, req.pitch)
            ELSE g1
  IN IF action = "approved"
     THEN [g2 EXCEPT !.store =
             ADD_MEMBER(@, v, Mem("member-" \o req.id, req.username, req.authUsername,
                                  req.privilege, FALSE))]
     ELSE g2

\* variant: the member is removed and the pledge is left in place
removeAndRefund_KeepPledge(vw, g, v, member) ==
  [g EXCEPT !.store = REMOVE_MEMBER(@, v, member.id)]

\* MembersTab.handleRemove / handleLeave (the confirmed branch of the Alert)
removeAndRefund(vw, g, v, member) ==
  LET g1 == [g EXCEPT !.store = REMOVE_MEMBER(@, v, member.id)] IN
  IF member.authUsername # NoAuth
  THEN handleMemberRefund(vw, g1, v, member.authUsername, member.username)
  ELSE g1

\* ---------------------------------------------------------------- steps
NoScreen == [venture |-> "", tab |-> ""]
Scr(tab, v) == [venture |-> v, tab |-> tab]

Fresh == taps = 0
\* the signed-in user can open a screen and act on it
CanAct == steps < MaxSteps /\ Fresh
\* a Pressable of this tab of this venture's screen is on screen
OnScreen(v, tab) ==
  /\ steps < MaxSteps
  /\ \/ Fresh
     \/ taps <= MaxStaleTaps /\ screen = Scr(tab, v)

\* a handler of a Pressable ran: the screen re-renders some time later
CommitPressable(g, op) ==
  /\ steps' = steps + 1
  /\ store' = g.store
  /\ wallets' = g.wallets
  /\ IF taps + 1 > MaxStaleTaps
     THEN view' = g /\ taps' = 0 /\ screen' = NoScreen
     ELSE view' = view /\ taps' = taps + 1 /\ screen' = op
  /\ UNCHANGED << authUser, lastCall >>

\* a handler of another screen ran and the screens re-rendered
CommitFresh(g) ==
  /\ steps' = steps + 1
  /\ store' = g.store
  /\ wallets' = g.wallets
  /\ view' = g
  /\ taps' = 0
  /\ screen' = NoScreen
  /\ UNCHANGED << authUser, lastCall >>

Init ==
  /\ store = [ventures |-> MOCK_VENTURES,
              joinRequests |-> MOCK_JOIN_REQUESTS,
              members |-> buildInitialMembers,
              ventureTxs |-> MOCK_TRANSACTIONS,
              pledges |-> [v \in Ventures |-> << >>]]
  /\ wallets = << >>
  /\ authUser \in Users
  /\ now = 0
  /\ view = [store |-> store, wallets |-> wallets]
  /\ taps = 0
  /\ screen = NoScreen
  /\ steps = 0
  /\ lastCall = NoCall

\* React commits the pending re-render
Render ==
  /\ taps > 0
  /\ view' = G
  /\ taps' = 0
  /\ screen' = NoScreen
  /\ UNCHANGED << store, wallets, authUser, now, steps, lastCall >>

\* sign-in as another user (AuthProvider.login)
Login(u) ==
  /\ Fresh
  /\ u # authUser
  /\ authUser' = u
  /\ UNCHANGED << store, wallets, now, view, taps, screen, steps, lastCall >>

\* join modal, "Send Request"
SubmitJoinRequest(v, pitch, priv) ==
  /\ OnScreen(v, "join")
  /\ canJoin(view, v) /\ ~alreadyRequested(view, v)
  /\ \E t \in {now, now + 1} :
       /\ t <= MaxClock
       /\ now' = t
       /\ CommitPressable(
            [G EXCEPT !.store =
               ADD_JOIN_REQUEST(@, v, Req("jr-" \o ToString(t), DisplayName(authUser),
                                          authUser, priv, pitch, "pending"))],
            Scr("join", v))

\* Requests tab, "Approve" / "Deny" on a request drawn in the pending section
Decide(v, i, action) ==
  /\ OnScreen(v, "requests")
  /\ canSeeRequests(view, v) /\ isCoOwner(view, v)
  /\ view.store.joinRequests[v][i].status = "pending"
  /\ LET req == view.store.joinRequests[v][i] IN
       CommitPressable(decide(G, v, req, action),
                       Scr("requests", v))
  /\ UNCHANGED now

\* Members tab, "Remove" on another member's card, then "Remove" in the Alert
Remove(v, i) ==
  /\ OnScreen(v, "members")
  /\ ~view.store.members[v][i].isOwner
  /\ canDo(view, v, "REMOVE_MEMBER")
  /\ LET member == view.store.members[v][i] IN
       CommitPressable(removeAndRefund(view, G, v, member), Scr("members", v))
  /\ UNCHANGED now

\* Members tab, "Leave" on the signed-in user's own card, then "Leave" in the Alert
Leave(v, i) ==
  /\ OnScreen(v, "members")
  /\ ~view.store.members[v][i].isOwner
  /\ view.store.members[v][i].authUsername = authUser
  /\ ~canDo(view, v, "REMOVE_MEMBER")
  /\ LET member == view.store.members[v][i] IN
       CommitPressable(removeAndRefund(view, G, v, member), Scr("members", v))
  /\ UNCHANGED now

\* Mission tab, "Activate Venture"
Activate(v) ==
  /\ OnScreen(v, "mission")
  /\ canDo(view, v, "CHANGE_VENTURE_STATUS")
  /\ view.store.ventures[v] = "proposed"
  /\ CommitPressable([G EXCEPT !.store = UPDATE_VENTURE(@, v, "ongoing")],
                     Scr("mission", v))
  /\ UNCHANGED now

\* Mission tab, "Mark as Complete", then "Mark Complete" in the confirmation modal
Complete(v) ==
  /\ OnScreen(v, "complete")
  /\ canDo(view, v, "CHANGE_VENTURE_STATUS")
  /\ view.store.ventures[v] = "ongoing"
  /\ CommitPressable(
       handleVentureCompletion(view, [G EXCEPT !.store = UPDATE_VENTURE(@, v, "finished")], v),
       Scr("complete", v))
  /\ UNCHANGED now

WalletTxCount(label) ==
  LET RECURSIVE N(_)
      N(us) == IF us = {} THEN 0
               ELSE LET u == CHOOSE x \in us : TRUE IN
                    Count(wallets[u].transactions, LAMBDA t : t.label = label) + N(us \ {u})
  IN N(DOMAIN wallets)

VentureTxCount(description) ==
  LET RECURSIVE N(_)
      N(vs) == IF vs = {} THEN 0
               ELSE LET v == CHOOSE x \in vs : TRUE IN
                    Count(store.ventureTxs[v], LAMBDA t : t.description = description)
                    + N(vs \ {v})
  IN N(Ventures)

\* Wallet tab, WalletTab.handleContribute
Contribute(v, amount) ==
  /\ OnScreen(v, "wallet")
  /\ canSeeWallet(view, v) /\ canDo(view, v, "CONTRIBUTE_FUNDS")
  /\ VentureTxCount("Member contribution") < MaxContributions
  /\ amount > 0
  /\ ~(amount > getBalance(view.wallets, authUser))
  /\ CommitPressable(
       [wallets |-> DEDUCT(wallets, authUser, amount, "Contribution"),
        store |-> ADD_VENTURE_TX(store, v, Tx("contribution", "You", amount, "Member contribution"))],
       Scr("wallet", v))
  /\ UNCHANGED now

\* Account screen, TopUpSheet.handlePay
Topup(amount) ==
  /\ CanAct
  /\ WalletTxCount("Wallet Top-Up") < MaxTopups
  /\ amount >= 10
  /\ CommitFresh([G EXCEPT !.wallets = TOPUP(@, authUser, amount, "Wallet Top-Up")])
  /\ UNCHANGED now

\* Cart screen: ventures whose wallet the signed-in user may pay from
myVentures(vw, v) ==
  LET member == getMemberForUser(vw.store, v, authUser) IN
  \/ member = NoMember /\ OwnerNameMatches(v, authUser)
  \/ member.privilege = "co-owner" \/ member.privilege = "buyer" \/ member.isOwner

getVentureBalance(state, v) == SumAmount(state.ventureTxs[v])

\* Cart screen, handleCheckout with the personal wallet selected
CheckoutPersonal(total) ==
  /\ CanAct
  /\ WalletTxCount("Cart Checkout") + VentureTxCount("Supplies purchase") < MaxCheckouts
  /\ getBalance(view.wallets, authUser) >= total
  /\ CommitFresh([G EXCEPT !.wallets = DEDUCT(@, authUser, total, "Cart Checkout")])
  /\ UNCHANGED now

\* Cart screen, handleCheckout with a venture wallet selected
CheckoutVenture(v, total) ==
  /\ CanAct
  /\ WalletTxCount("Cart Checkout") + VentureTxCount("Supplies purchase") < MaxCheckouts
  /\ myVentures(view, v)
  /\ getVentureBalance(view.store, v) >= total
  /\ CommitFresh([G EXCEPT !.store =
                    ADD_VENTURE_TX(@, v, Tx("purchase", DisplayName(authUser), 0 - total,
                                            "Supplies purchase"))])
  /\ UNCHANGED now

Next ==
  \/ Render
  \/ \E u \in Users : Login(u)
  \/ \E v \in Ventures, pitch \in PitchChoices, priv \in FormPrivileges :
       SubmitJoinRequest(v, pitch, priv)
  \/ \E v \in Ventures : \E i \in 1..Len(view.store.joinRequests[v]) :
       \E action \in {"approved", "denied"} : Decide(v, i, action)
  \/ \E v \in Ventures : \E i \in 1..Len(view.store.members[v]) : Remove(v, i)
  \/ \E v \in Ventures : \E i \in 1..Len(view.store.members[v]) : Leave(v, i)
  \/ \E v \in Ventures : Activate(v)
  \/ \E v \in Ventures : Complete(v)
  \/ \E v \in Ventures, amount \in ContributeChoices : Contribute(v, amount)
  \/ \E amount \in TopupChoices : Topup(amount)
  \/ \E total \in CheckoutTotals : CheckoutPersonal(total)
  \/ \E v \in Ventures, total \in CheckoutTotals : CheckoutVenture(v, total)

Spec == Init /\ [][Next]_vars

\* the handlers of the venture-detail screen alone (no top-up, no checkout)
NextVenture ==
  \/ Render
  \/ \E u \in Users : Login(u)
  \/ \E v \in Ventures, pitch \in PitchChoices, priv \in FormPrivileges :
       SubmitJoinRequest(v, pitch, priv)
  \/ \E v \in Ventures : \E i \in 1..Len(view.store.joinRequests[v]) :
       \E action \in {"approved", "denied"} : Decide(v, i, action)
  \/ \E v \in Ventures : \E i \in 1..Len(view.store.members[v]) : Remove(v, i)
  \/ \E v \in Ventures : \E i \in 1..Len(view.store.members[v]) : Leave(v, i)
  \/ \E v \in Ventures : Activate(v)
  \/ \E v \in Ventures : Complete(v)
  \/ \E v \in Ventures, amount \in ContributeChoices : Contribute(v, amount)

SpecVenture == Init /\ [][NextVenture]_vars

\* Members tab, "Edit" on another member's card, then "Save" in the sheet
PRIVILEGE_OPTIONS == {"co-owner", "admin", "buyer", "viewer"}
EditChoices == {"co-owner", "viewer"}

saveEdit(v, i, editPrivilege) ==
  /\ OnScreen(v, "members")
  /\ ~view.store.members[v][i].isOwner
  /\ canDo(view, v, "REMOVE_MEMBER")
  /\ editPrivilege \in PRIVILEGE_OPTIONS
  /\ CommitPressable(
       [G EXCEPT !.store = UPDATE_MEMBER(@, v, view.store.members[v][i].id, editPrivilege)],
       Scr("members", v))
  /\ UNCHANGED now

\* the mutating venture actions that sit behind a permission
NextMembers ==
  \/ Render
  \/ \E u \in Users : Login(u)
  \/ \E v \in Ventures : \E i \in 1..Len(view.store.joinRequests[v]) :
       \E action \in {"approved", "denied"} : Decide(v, i, action)
  \/ \E v \in Ventures : \E i \in 1..Len(view.store.members[v]) : Remove(v, i)
  \/ \E v \in Ventures : \E i \in 1..Len(view.store.members[v]) : Leave(v, i)
  \/ \E v \in Ventures : \E i \in 1..Len(view.store.members[v]) :
       \E editPrivilege \in EditChoices : saveEdit(v, i, editPrivilege)
  \/ \E v \in Ventures : Activate(v)
  \/ \E v \in Ventures : Complete(v)

SpecMembers == Init /\ [][NextMembers]_vars

\* ------------------------------------------------------------ app relaunch
\* VenturesProvider's load effect on a later launch of the same build: the
\* stored schema version is the build's own, so the saved rosters are merged
\* with the seed rosters (saved records first, then the seed records whose id
\* is not among them); requests, ledgers and pledges are taken as saved.
mergeMembers(savedMembers) ==
  [v \in Ventures |->
     savedMembers[v] \o
       Filter(buildInitialMembers[v],
              LAMBDA m : ~Some(savedMembers[v], LAMBDA x : x.id = m.id))]

Relaunch ==
  /\ Fresh
  /\ store' = [store EXCEPT !.members = mergeMembers(@)]
  /\ view' = [store |-> store', wallets |-> wallets]
  /\ UNCHANGED << wallets, authUser, now, taps, screen, steps, lastCall >>

NextRelaunch ==
  \/ Render
  \/ Relaunch
  \/ \E u \in Users : Login(u)
  \/ \E v \in Ventures, pitch \in PitchChoices, priv \in FormPrivileges :
       SubmitJoinRequest(v, pitch, priv)
  \/ \E v \in Ventures : \E i \in 1..Len(view.store.joinRequests[v]) :
       \E action \in {"approved", "denied"} : Decide(v, i, action)
  \/ \E v \in Ventures : \E i \in 1..Len(view.store.members[v]) : Remove(v, i)
  \/ \E v \in Ventures : \E i \in 1..Len(view.store.members[v]) : Leave(v, i)
  \/ \E v \in Ventures : Activate(v)
  \/ \E v \in Ventures : Complete(v)

SpecRelaunch == Init /\ [][NextRelaunch]_vars

\* ------------------------------------------- the store's exported operations
\* VenturesProvider hands these callbacks to every component; each dispatches
\* one reducer action.  SpecStore drives the reducer through them directly.
StatusValues == {"proposed", "ongoing", "finished"}
DecisionValues == {"approved", "denied"}

StoreCall(state) ==
  /\ steps < MaxSteps
  /\ CommitFresh([G EXCEPT !.store = state])
  /\ UNCHANGED now

updateVentureStatus(id, status) == StoreCall(UPDATE_VENTURE(store, id, status))

addJoinRequest(ventureId, request) == StoreCall(ADD_JOIN_REQUEST(store, ventureId, request))

updateJoinRequestStatus(ventureId, requestId, status) ==
  StoreCall(UPDATE_JOIN_REQUEST_STATUS(store, ventureId, requestId, status))

rejectAllPendingRequests(ventureId) == StoreCall(REJECT_ALL_PENDING_REQUESTS(store, ventureId))

addMember(ventureId, member) == StoreCall(ADD_MEMBER(store, ventureId, member))

removeMember(ventureId, memberId) == StoreCall(REMOVE_MEMBER(store, ventureId, memberId))

NextStore ==
  \/ \E id \in Ventures, status \in StatusValues : updateVentureStatus(id, status)
  \/ \E v \in Ventures, u \in Users, t \in 0..MaxClock :
       addJoinRequest(v, Req("jr-" \o ToString(t), DisplayName(u), u, "buyer", 0, "pending"))
  \/ \E v \in Ventures : \E i \in 1..Len(store.joinRequests[v]) :
       \E status \in DecisionValues :
         updateJoinRequestStatus(v, store.joinRequests[v][i].id, status)
  \/ \E v \in Ventures : rejectAllPendingRequests(v)
  \/ \E v \in Ventures : \E i \in 1..Len(store.joinRequests[v]) :
       LET req == store.joinRequests[v][i] IN
       addMember(v, Mem("member-" \o req.id, req.username, req.authUsername,
                        req.privilege, FALSE))
  \/ \E v \in Ventures : \E i \in 1..Len(store.members[v]) :
       removeMember(v, store.members[v][i].id)

SpecStore == Init /\ [][NextStore]_vars

\* the roster and request callbacks alone
NextRoster ==
  \/ \E v \in Ventures : \E i \in 1..Len(store.joinRequests[v]) :
       \E status \in DecisionValues :
         updateJoinRequestStatus(v, store.joinRequests[v][i].id, status)
  \/ \E v \in Ventures : rejectAllPendingRequests(v)
  \/ \E v \in Ventures : \E i \in 1..Len(store.joinRequests[v]) :
       LET req == store.joinRequests[v][i] IN
       addMember(v, Mem("member-" \o req.id, req.username, req.authUsername,
                        req.privilege, FALSE))
  \/ \E v \in Ventures : \E i \in 1..Len(store.members[v]) :
       removeMember(v, store.members[v][i].id)

SpecRoster == Init /\ [][NextRoster]_vars

\* ------------------------------------------ the wallet's exported operations
\* WalletProvider's topup and deduct callbacks, each dispatching one reducer
\* action; "guest" has no entry in INITIAL_BALANCES.
WalletUsers == {"rahul", "guest"}
TopupAmounts == {500}
DeductAmounts == {1200, 3000}

WalletCall(ws) ==
  /\ steps < MaxSteps
  /\ CommitFresh([G EXCEPT !.wallets = ws])
  /\ UNCHANGED now

topup(authUsername, amount, label) == WalletCall(TOPUP(wallets, authUsername, amount, label))

deduct(authUsername, amount, label) == WalletCall(DEDUCT(wallets, authUsername, amount, label))

NextWallet ==
  \/ \E u \in WalletUsers, amount \in TopupAmounts : topup(u, amount, "Wallet Top-Up")
  \/ \E u \in WalletUsers, amount \in DeductAmounts : deduct(u, amount, "Purchase")

SpecWallet == Init /\ [][NextWallet]_vars

\* ------------------------------------------------------ the permission check
\* can() called directly, on typed and untyped arguments
PrivilegeInputs == {"co-owner", "admin", "buyer", "viewer", NoPrivilege, "moderator", "constructor"}
PermissionInputs == Permissions \cup {"ANYTHING"}

canOutcome(privilege, permission, isOwner) ==
  IF canThrows(privilege, permission, isOwner) THEN "TypeError"
  ELSE IF can(privilege, permission, isOwner) THEN "true" ELSE "false"

callCan(privilege, permission, isOwner) ==
  /\ lastCall' = [privilege |-> privilege, permission |-> permission, isOwner |-> isOwner,
                  outcome |-> canOutcome(privilege, permission, isOwner)]
  /\ UNCHANGED << store, wallets, authUser, now, view, taps, screen, steps >>

NextCan ==
  \E privilege \in PrivilegeInputs, permission \in PermissionInputs, isOwner \in BOOLEAN :
    callCan(privilege, permission, isOwner)

SpecCan == Init /\ [][NextCan]_vars

\* ------------------------------------------------- the store's pledge record
\* VenturesProvider's recordPledge callback, called directly
RecordAmounts == {300, 3000}

recordPledge(ventureId, pledge) == StoreCall(RECORD_PLEDGE(store, ventureId, pledge))

NextPledges ==
  \E v \in Ventures, u \in Users, amount \in RecordAmounts :
    recordPledge(v, [authUsername |-> u, displayName |-> DisplayName(u), amount |-> amount])

SpecPledges == Init /\ [][NextPledges]_vars

\* ------------------------------------------------ the proportional payout
\* handleVentureCompletion on an ongoing venture, over a range of pledge lists
\* and of remaining balances (the ledger the code reads is a constant, so the
\* remaining balance is handed in).  For the amounts used here the double
\* arithmetic of remaining * (amount / totalPledged) rounds as RoundDiv does.
PledgeAmounts == {1, 2, 100, 200}
RemainingChoices == {0, 1, 2, 3, 250}
PledgerOrder == << "abhijeet", "priya", "rahul" >>

\* one Pledge per user who pledged, in the order the pledges were recorded
PledgeList(f) ==
  SelectSeq([i \in 1..Len(PledgerOrder) |->
               [authUsername |-> PledgerOrder[i],
                displayName |-> DisplayName(PledgerOrder[i]),
                amount |-> f[PledgerOrder[i]]]],
            LAMBDA p : p.amount > 0)

InitPayout ==
  /\ \E f \in [Users -> PledgeAmounts \cup {0}] :
       store = [ventures |-> [v \in Ventures |-> IF v = "v1" THEN "ongoing" ELSE "proposed"],
                joinRequests |-> MOCK_JOIN_REQUESTS,
                members |-> buildInitialMembers,
                ventureTxs |-> MOCK_TRANSACTIONS,
                pledges |-> [v \in Ventures |-> IF v = "v1" THEN PledgeList(f) ELSE << >>]]
  /\ wallets = << >>
  /\ authUser \in Users
  /\ now = 0
  /\ view = [store |-> store, wallets |-> wallets]
  /\ taps = 0
  /\ screen = NoScreen
  /\ steps = 0
  /\ lastCall = NoCall

handleVentureCompletionWith(vw, g, v, remaining) ==
  LET pledges == vw.store.pledges[v]
      totalPledged == SumAmount(pledges)
      g1 == IF remaining > 0 /\ totalPledged > 0
            THEN PayoutLoop(g, v, pledges, remaining, totalPledged)
            ELSE g
  IN [g1 EXCEPT !.store = ClearPledges(@, v, pledges)]

\* "Mark Complete" on a venture whose ledger leaves `remaining`
CompleteWith(v, remaining) ==
  /\ CanAct
  /\ canDo(view, v, "CHANGE_VENTURE_STATUS")
  /\ view.store.ventures[v] = "ongoing"
  /\ CommitFresh(handleVentureCompletionWith(
                   view, [G EXCEPT !.store = UPDATE_VENTURE(@, v, "finished")], v, remaining))
  /\ UNCHANGED now

NextPayout ==
  \/ \E u \in Users : Login(u)
  \/ \E v \in Ventures, remaining \in RemainingChoices : CompleteWith(v, remaining)

SpecPayout == InitPayout /\ [][NextPayout]_vars

\* ------------------------------------------------------------ properties
RECURSIVE WalletTotal(_, _)
WalletTotal(ws, us) ==
  IF us = {} THEN 0
  ELSE LET u == CHOOSE x \in us : TRUE IN getBalance(ws, u) + WalletTotal(ws, us \ {u})

RECURSIVE VentureTotal(_, _)
VentureTotal(state, vs) ==
  IF vs = {} THEN 0
  ELSE LET v == CHOOSE x \in vs : TRUE IN
       getVentureBalance(state, v) + VentureTotal(state, vs \ {v})

\* every wallet balance plus every venture balance
TotalMoney == WalletTotal(wallets, Users) + VentureTotal(store, Ventures)

IsTopup == \E amount \in TopupChoices : Topup(amount)
IsPurchase ==
  \/ \E total \in CheckoutTotals : CheckoutPersonal(total)
  \/ \E v \in Ventures, total \in CheckoutTotals : CheckoutVenture(v, total)

\* C1: over approvals with pledge deduction, contributions, removals or
\* departures with refund and completions, total money (all wallet balances
\* plus all venture balances) stays constant; only a top-up (or, outside the
\* claim's scope, a purchase) may change it.
C1_Conservation == [][IsTopup \/ IsPurchase \/ TotalMoney' = TotalMoney]_vars

HasPledge(state, v, u) ==
  Some(state.pledges[v], LAMBDA p : p.authUsername = u /\ p.amount > 0)

WalletRefunds(ws, v, u) ==
  Count(getOrCreateWallet(ws, u).transactions,
        LAMBDA t : t.type = "topup" /\ t.label = "Refund from " \o v)

LedgerCount(state, v, type) == Count(state.ventureTxs[v], LAMBDA t : t.type = type)

\* C2: a refund for (venture, user) credits the wallet only when a Pledge
\* with amount > 0 exists for the pair, deletes it, and adds one credit and
\* one refund ledger entry; a second refund in a row changes nothing.
C2_RefundOnce ==
  [][\A v \in Ventures, u \in Users :
       WalletRefunds(wallets', v, u) # WalletRefunds(wallets, v, u) =>
         /\ HasPledge(store, v, u)
         /\ ~HasPledge(store', v, u)
         /\ WalletRefunds(wallets', v, u) = WalletRefunds(wallets, v, u) + 1
         /\ LedgerCount(store', v, "refund") = LedgerCount(store, v, "refund") + 1]_vars

\* C3: when a venture is completed with remaining > 0 and totalPledged > 0,
\* every user holding a Pledge on it has their own wallet credited with
\* round(remaining * pledge.amount / totalPledged), and one cashout entry of
\* that amount is appended for each payout > 0.
C3_PayoutToEveryPledger ==
  [][\A v \in Ventures :
       (Complete(v) /\ CompletionRemaining(v) > 0 /\ SumAmount(store.pledges[v]) > 0) =>
         LET pl == store.pledges[v]
             totalPledged == SumAmount(pl)
             paid == Count(pl, LAMBDA p :
                       PayoutAmount(CompletionRemaining(v), p.amount, totalPledged) > 0)
         IN /\ \A k \in 1..Len(pl) :
                 getBalance(wallets', pl[k].authUsername) =
                   getBalance(wallets, pl[k].authUsername)
                   + PayoutAmount(CompletionRemaining(v), pl[k].amount, totalPledged)
            /\ LedgerCount(store', v, "cashout") = LedgerCount(store, v, "cashout") + paid]_vars

\* remaining as the ledger gives it: contributions minus what was spent on
\* purchases (purchase entries carry the negated total), never below 0
LedgerRemaining(state, v) ==
  LET txs == state.ventureTxs[v]
      totalContributions == SumAmount(Filter(txs, LAMBDA t : t.type = "contribution"))
      totalPurchases == 0 - SumAmount(Filter(txs, LAMBDA t : t.type = "purchase"))
  IN Max(0, totalContributions - totalPurchases)

CashoutTotal(state, v) == SumAmount(Filter(state.ventureTxs[v], LAMBDA t : t.type = "cashout"))

\* C4: the amount distributed at completion is max(0, contributions minus
\* purchases) over the venture's full ledger as it stands at completion time;
\* with a single pledger the cashout appended is exactly that amount.
C4_RemainingFromLedger ==
  [][\A v \in Ventures :
       (Complete(v) /\ Len(store.pledges[v]) = 1 /\ SumAmount(store.pledges[v]) > 0) =>
         CashoutTotal(store', v) - CashoutTotal(store, v) = LedgerRemaining(store, v)]_vars

\* C5: a finished venture has no pending join request.
C5_FinishedHasNoPending ==
  \A v \in Ventures :
    store.ventures[v] = "finished" =>
      ~Some(store.joinRequests[v], LAMBDA r : r.status = "pending")

\* C6: each venture's roster holds at most one Member record per authUsername.
C6_OneMemberPerUser ==
  \A v \in Ventures, u \in Users :
    Count(store.members[v], LAMBDA m : m.authUsername = u) <= 1

\* C7: at most one pending join request per (venture, authUsername).
C7_OnePendingPerUser ==
  \A v \in Ventures, u \in Users :
    Count(store.joinRequests[v], LAMBDA r : r.authUsername = u /\ r.status = "pending") <= 1

\* C8: a join request that is approved or denied never changes status again.
C8_DecisionIsTerminal ==
  [][\A v \in Ventures : \A i \in 1..Len(store.joinRequests[v]) :
       store.joinRequests[v][i].status # "pending" =>
         store'.joinRequests[v][i].status = store.joinRequests[v][i].status]_vars

\* C9: a venture's status changes only by proposed -> ongoing and
\* ongoing -> finished; any other status change requested of the store is
\* rejected, and a finished venture's status never changes again.
C9_StatusSteps ==
  [][\A v \in Ventures :
       store'.ventures[v] # store.ventures[v] =>
         << store.ventures[v], store'.ventures[v] >> \in
           {<< "proposed", "ongoing" >>, << "ongoing", "finished" >>}]_vars

\* C10: approving a request whose status is already approved does not debit
\* the wallet or append a contribution entry again.
C10_PledgeDeductedOnce ==
  [][\A v \in Ventures : \A i \in 1..Len(view.store.joinRequests[v]) :
       (Decide(v, i, "approved") /\ store.joinRequests[v][i].status = "approved") =>
         /\ wallets' = wallets
         /\ store'.ventureTxs = store.ventureTxs]_vars

PledgesOf(state, v, u) == Filter(state.pledges[v], LAMBDA p : p.authUsername = u)

\* the step approves the request drawn at position i, which is still pending in the store
ApprovesPending(v, i) ==
  /\ Decide(v, i, "approved")
  /\ store.joinRequests[v][i].status = "pending"

\* C11: approving a pending join request with pitch p > 0 from a user whose
\* balance is at least p lowers that balance by exactly p, leaves exactly one
\* Pledge of amount p for (venture, user), and appends exactly one
\* contribution entry of +p to the venture's ledger.
C11_ApproveEffects ==
  [][\A v \in Ventures : \A i \in 1..Len(view.store.joinRequests[v]) :
       LET req == view.store.joinRequests[v][i] IN
       (/\ ApprovesPending(v, i)
        /\ req.pitch > 0
        /\ req.authUsername # NoAuth
        /\ getBalance(wallets, req.authUsername) >= req.pitch) =>
         /\ getBalance(wallets', req.authUsername) =
              getBalance(wallets, req.authUsername) - req.pitch
         /\ PledgesOf(store', v, req.authUsername) =
              << [authUsername |-> req.authUsername, displayName |-> req.username,
                  amount |-> req.pitch] >>
         /\ store'.ventureTxs[v] =
              << Tx("contribution", req.username, req.pitch, "Pledge on joining") >>
              \o store.ventureTxs[v]]_vars

\* priya's seed request (pitch 300, balance 3500) has been approved once
C11_Witness ==
  /\ getBalance(wallets, "priya") = 3200
  /\ PledgesOf(store, "v1", "priya") =
       << [authUsername |-> "priya", displayName |-> "Priya M.", amount |-> 300] >>
  /\ Count(store.ventureTxs["v1"], LAMBDA t : t.description = "Pledge on joining") = 1
  /\ store.joinRequests["v1"][1].status = "approved"

WalletLabels(ws, u) == MapSeq(getOrCreateWallet(ws, u).transactions, LAMBDA t : t.label)

\* C12: a user with balance B who is approved into a venture with pitch p and
\* later removed from it (or leaves it), with no other wallet activity in
\* between, has balance B again, and no Pledge for (venture, user) remains.
C12_ApproveRemoveRoundTrip ==
  \A v \in Ventures, u \in Users :
    WalletLabels(wallets, u) = << "Refund from " \o v, "Pledge to " \o v >> =>
      /\ getBalance(wallets, u) = INITIAL_BALANCES[u]
      /\ PledgesOf(store, v, u) = << >>

PledgeContributions(state, v) ==
  SumAmount(Filter(state.ventureTxs[v],
                   LAMBDA t : t.type = "contribution" /\ t.description = "Pledge on joining"))

\* C13: for every venture, the sum of the amounts of its current Pledge
\* records equals the sum of the contribution entries created by join pledges.
C13_PledgesMatchLedger ==
  \A v \in Ventures : SumAmount(store.pledges[v]) = PledgeContributions(store, v)

\* C14: completion settlement is applied once per venture: after it has run
\* no Pledge remains for the venture, and running it again, or running it on a
\* venture whose totalPledged is 0, credits no wallet and appends no cashout.
C14_CompletionOnce ==
  [][\A v \in Ventures :
       Complete(v) =>
         /\ store'.pledges[v] = << >>
         /\ (store.ventures[v] = "finished" \/ SumAmount(store.pledges[v]) = 0) =>
              /\ wallets' = wallets
              /\ LedgerCount(store', v, "cashout") = LedgerCount(store, v, "cashout")]_vars

\* the caller identities hasRequestedJoin may be handed: a user, or none
CallerIdentities == Users \cup {NoAuth}

\* C15: hasPendingRequest(venture, user) is true exactly when that user has a
\* pending join request on that venture; other users' requests and decided
\* requests never make it true, whatever identity is passed, including none.
C15_PendingRequestScoped ==
  \A v \in Ventures, u \in CallerIdentities :
    hasRequestedJoin(store, v, u) <=>
      Some(store.joinRequests[v], LAMBDA r : r.authUsername = u /\ r.status = "pending")

\* C16: every venture has at least one Member with isOwner = true in its
\* roster, and no operation leaves a venture without an owner.
C16_OwnerPresent ==
  \A v \in Ventures : Some(store.members[v], LAMBDA m : m.isOwner)

\* the caller's own Member record in the venture, as the screen was drawn with it
CallerRecord(v) == getMemberForUser(view.store, v, authUser)
CallerCan(v, permission) ==
  can(CallerRecord(v).privilege, permission, CallerRecord(v).isOwner)

WalletTxs(ws, u) == getOrCreateWallet(ws, u).transactions

\* C18: an action that would debit a wallet by more than its current balance
\* is rejected with no state change, so every debit that is applied is for an
\* amount the wallet holds.
C18_NoOverdraft ==
  [][\A u \in Users :
       (/\ Len(WalletTxs(wallets', u)) > Len(WalletTxs(wallets, u))
        /\ Head(WalletTxs(wallets', u)).type = "deduct") =>
         Head(WalletTxs(wallets', u)).amount <= getBalance(wallets, u)]_vars

\* C19: a refund credit for (venture, user) is issued only after that user's
\* membership has been removed: when the wallet is credited, the venture's
\* roster contains no Member record for that user.
C19_RefundAfterRemoval ==
  [][\A v \in Ventures, u \in Users :
       WalletRefunds(wallets', v, u) > WalletRefunds(wallets, v, u) =>
         ~Some(store'.members[v], LAMBDA m : m.authUsername = u)]_vars

\* C20: after any sequence of topup and deduct calls every wallet balance is
\* >= 0; a deduct of a from balance b leaves max(0, b - a), appends exactly
\* one deduct transaction and touches no other wallet.
C20_DeductFloors ==
  [][/\ \A u \in DOMAIN wallets' : wallets'[u].balance >= 0
     /\ \A u \in WalletUsers, a \in DeductAmounts :
          deduct(u, a, "Purchase") =>
            /\ getBalance(wallets', u) = Max(0, getBalance(wallets, u) - a)
            /\ WalletTxs(wallets', u) = << WTx("deduct", a, "Purchase") >> \o WalletTxs(wallets, u)
            /\ \A w \in DOMAIN wallets \ {u} : wallets'[w] = wallets[w]]_vars

\* a deduct larger than the balance has been applied and left the wallet at 0
C20_Witness ==
  /\ "guest" \in DOMAIN wallets
  /\ wallets["guest"].balance = 0
  /\ wallets["guest"].transactions = << WTx("deduct", 3000, "Purchase") >>

\* C21: a refund of pledge amount p lowers the venture's raw balance (the
\* signed sum of all its VentureTransaction amounts) by p compared with the
\* state just before the refund.
C21_RefundLowersVentureBalance ==
  [][\A v \in Ventures, u \in Users :
       WalletRefunds(wallets', v, u) > WalletRefunds(wallets, v, u) =>
         getVentureBalance(store', v) =
           getVentureBalance(store, v) - Head(WalletTxs(wallets', u)).amount]_vars

\* the cashout amounts at the head of the venture's ledger, newest first
CashoutAmounts(state, v) ==
  MapSeq(Filter(state.ventureTxs[v], LAMBDA t : t.type = "cashout"), LAMBDA t : t.amount)

\* C22: for any n current pledges with totalPledged > 0 and any remaining >= 0,
\* the sum of the independently rounded payouts
\* round(remaining * pledge_i / totalPledged) differs from remaining by at most
\* n; for pledges [100, 200, 200] and remaining 250 the payouts are
\* [50, 100, 100].
C22_RoundingResidual ==
  [][\A v \in Ventures, remaining \in RemainingChoices :
       (CompleteWith(v, remaining) /\ SumAmount(store.pledges[v]) > 0) =>
         LET pl == store.pledges[v]
             paid == CashoutTotal(store', v) - CashoutTotal(store, v)
         IN /\ paid - remaining <= Len(pl)
            /\ remaining - paid <= Len(pl)
            /\ (MapSeq(pl, LAMBDA p : p.amount) = << 100, 200, 200 >> /\ remaining = 250) =>
                 CashoutAmounts(store', v) = << 100, 100, 50 >>]_vars

\* pledges [100, 200, 200] have been settled against a remaining balance of 250
C22_Witness ==
  /\ store.ventures["v1"] = "finished"
  /\ store.pledges["v1"] = << >>
  /\ MapSeq(Filter(store.ventureTxs["v1"], LAMBDA t : t.type = "cashout"),
            LAMBDA t : << t.username, t.amount >>) =
       << << "Rahul Desai", 100 >>, << "Priya Mehta", 100 >>, << "Abhijeet Patil", 50 >> >>

\* C23: after any sequence of record-pledge calls for the same (venture, user)
\* exactly one Pledge record exists for that pair and its amount is the amount
\* of the latest call; pledges of other users and other ventures are unchanged.
C23_OnePledgeLatestAmount ==
  [][\A v \in Ventures, u \in Users, amount \in RecordAmounts :
       LET pledge == [authUsername |-> u, displayName |-> DisplayName(u), amount |-> amount] IN
       recordPledge(v, pledge) =>
         /\ PledgesOf(store', v, u) = << pledge >>
         /\ \A w \in Users \ {u} : PledgesOf(store', v, w) = PledgesOf(store, v, w)
         /\ Len(store'.pledges[v]) = Len(store.pledges[v]) + 1 - Len(PledgesOf(store, v, u))
         /\ \A x \in Ventures \ {v} : store'.pledges[x] = store.pledges[x]]_vars

\* three record-pledge calls on v1 for two users: one pair was recorded twice
\* and still has a single record
C23_Witness ==
  /\ steps = 3
  /\ store.pledges["v6"] = << >>
  /\ store.pledges["v1"] =
       << [authUsername |-> "rahul", displayName |-> "Rahul Desai", amount |-> 300],
          [authUsername |-> "priya", displayName |-> "Priya Mehta", amount |-> 3000] >>

ActionPermissions ==
  {p \in Permissions : p \notin {"VIEW_VENTURE", "VIEW_MEMBERS", "VIEW_WALLET", "VIEW_REQUESTS",
                                 "VIEW_TASKS", "VIEW_SUPPLIES"}}

\* C24: can(privilege, permission, isOwner) returns true for every permission
\* when isOwner is true or the privilege is co-owner; otherwise it returns true
\* exactly when the permission is in that privilege's allowed set, where a
\* non-member (null) is allowed only VIEW_VENTURE, a viewer is allowed no action
\* permission, and an admin is never allowed REMOVE_MEMBER, CHANGE_MEMBER_ROLE
\* or CHANGE_VENTURE_STATUS; any unrecognized input yields false.
C24_CanTable ==
  lastCall # NoCall =>
    LET privilege == lastCall.privilege
        permission == lastCall.permission
        recognized == privilege \in PRIVILEGE_OPTIONS \cup {NoPrivilege} /\ permission \in Permissions
    IN IF lastCall.isOwner THEN lastCall.outcome = "true"
       ELSE IF ~recognized THEN lastCall.outcome = "false"
       ELSE /\ lastCall.outcome \in {"true", "false"}
            /\ privilege = "co-owner" => lastCall.outcome = "true"
            /\ lastCall.outcome = "true" <=> permission \in PRIVILEGE_PERMISSIONS(privilege)
            /\ privilege = NoPrivilege => (lastCall.outcome = "true" <=> permission = "VIEW_VENTURE")
            /\ (privilege = "viewer" /\ permission \in ActionPermissions) =>
                 lastCall.outcome = "false"
            /\ (privilege = "admin" /\ permission \in
                  {"REMOVE_MEMBER", "CHANGE_MEMBER_ROLE", "CHANGE_VENTURE_STATUS"}) =>
                 lastCall.outcome = "false"

\* C25: removeMember(venture, memberId) removes only the matching Member record
\* from that venture's roster: wallets, pledges, venture transactions, join
\* requests and every other venture's roster are unchanged by this call.
C25_RemoveMemberFrame ==
  [][\A v \in Ventures : \A i \in 1..Len(store.members[v]) :
       removeMember(v, store.members[v][i].id) =>
         /\ store'.members[v] =
              SubSeq(store.members[v], 1, i - 1)
              \o SubSeq(store.members[v], i + 1, Len(store.members[v]))
         /\ \A x \in Ventures \ {v} : store'.members[x] = store.members[x]
         /\ wallets' = wallets
         /\ store'.pledges = store.pledges
         /\ store'.ventureTxs = store.ventureTxs
         /\ store'.joinRequests = store.joinRequests
         /\ store'.ventures = store.ventures]_vars

\* priya's seed record has been removed from v1 by one call; nothing else moved
C25_Witness ==
  /\ steps = 1
  /\ MapSeq(store.members["v1"], LAMBDA m : m.id) = << "owner-v1", "m-v1-rahul", "m-v1-deepa" >>
  /\ store.members["v6"] = buildInitialMembers["v6"]
  /\ store.joinRequests = MOCK_JOIN_REQUESTS
  /\ store.ventureTxs = MOCK_TRANSACTIONS
  /\ wallets = << >>

\* C26: rejectAllPending(venture) changes every pending join request of that
\* venture to denied and changes nothing else: requests already approved or
\* denied keep their status, and the requests of every other venture are
\* untouched.
C26_RejectAllPendingFrame ==
  [][\A v \in Ventures :
       rejectAllPendingRequests(v) =>
         /\ Len(store'.joinRequests[v]) = Len(store.joinRequests[v])
         /\ \A i \in 1..Len(store.joinRequests[v]) :
              LET r == store.joinRequests[v][i] IN
              store'.joinRequests[v][i] =
                IF r.status = "pending" THEN [r EXCEPT !.status = "denied"] ELSE r
         /\ \A x \in Ventures \ {v} : store'.joinRequests[x] = store.joinRequests[x]
         /\ store'.members = store.members
         /\ store'.pledges = store.pledges
         /\ store'.ventureTxs = store.ventureTxs
         /\ store'.ventures = store.ventures
         /\ wallets' = wallets]_vars

\* jr1 was approved, then v1's pending requests were rejected in one call: jr2
\* and jr3 are denied, jr1 is still approved and v6's request is still pending
C26_Witness ==
  /\ steps = 2
  /\ MapSeq(store.joinRequests["v1"], LAMBDA r : r.status) = << "approved", "denied", "denied" >>
  /\ store.joinRequests["v6"] = MOCK_JOIN_REQUESTS["v6"]
  /\ store.members = buildInitialMembers

\* the Member record the approval of request r adds
MemberOf(r) == Mem("member-" \o r.id, r.username, r.authUsername, r.privilege, FALSE)

\* C27: addMember with a member id that is already present in the venture's
\* roster leaves the roster unchanged, so applying the same addMember twice
\* gives the same roster as applying it once.
C27_AddMemberIdempotent ==
  [][\A v \in Ventures : \A i \in 1..Len(store.joinRequests[v]) :
       LET member == MemberOf(store.joinRequests[v][i]) IN
       addMember(v, member) =>
         /\ Some(store.members[v], LAMBDA m : m.id = member.id) =>
              store'.members = store.members
         /\ Count(store'.members[v], LAMBDA m : m.id = member.id) = 1
         /\ ADD_MEMBER(store', v, member).members = store'.members]_vars

\* two calls (the same addMember twice) have left one member-jr1 record on v1
C27_Witness ==
  /\ steps = 2
  /\ store.members["v1"] = Append(buildInitialMembers["v1"], MemberOf(MOCK_JOIN_REQUESTS["v1"][1]))
  /\ store.members["v6"] = buildInitialMembers["v6"]
  /\ store.joinRequests = MOCK_JOIN_REQUESTS

\* C28: approval of a join request with pitch p > 0 is all-or-nothing: once
\* the approve action has finished, the requester has a Member record in the
\* venture if and only if a Pledge of p for that requester and a contribution
\* entry of p exist; no approval leaves a member who pitched money without the
\* corresponding pledge and contribution.
C28_ApprovalAllOrNothing ==
  [][\A v \in Ventures : \A i \in 1..Len(view.store.joinRequests[v]) :
       LET req == view.store.joinRequests[v][i] IN
       (Decide(v, i, "approved") /\ req.pitch > 0) =>
         LET isMember == Some(store'.members[v], LAMBDA m : m.id = MemberOf(req).id)
             pledged == Some(store'.pledges[v],
                             LAMBDA p : p.authUsername = req.authUsername /\ p.amount = req.pitch)
             contributed == Some(store'.ventureTxs[v],
                                 LAMBDA t : /\ t.type = "contribution"
                                            /\ t.username = req.username
                                            /\ t.amount = req.pitch
                                            /\ t.description = "Pledge on joining")
         IN isMember <=> (pledged /\ contributed)]_vars

WalletPledgeDebits(ws, v, u) ==
  Count(getOrCreateWallet(ws, u).transactions,
        LAMBDA t : t.type = "deduct" /\ t.label = "Pledge to " \o v)

\* C29: the amount recorded in a Pledge always equals the amount by which the
\* pledger's wallet balance actually fell when the pledge was deducted, so a
\* later refund or completion payout never credits a user more than was taken
\* from their wallet for that pledge.
C29_PledgeEqualsDebit ==
  [][\A v \in Ventures, u \in Users :
       WalletPledgeDebits(wallets', v, u) > WalletPledgeDebits(wallets, v, u) =>
         SumAmount(PledgesOf(store', v, u)) = getBalance(wallets, u) - getBalance(wallets', u)]_vars

====
